---- MODULE Spec2Model ----
(***************************************************************************)
(* Model of the translation view (App, string+kind error variant) and of   *)
(* the translateAndDetect service of Tradutor-Inteligente-IA.              *)
(*                                                                         *)
(* One action per event-loop task: a user event handler, the debounce      *)
(* timer callback, the continuation of getTranslation after its await,     *)
(* and the view teardown.  Each action includes the re-render it causes    *)
(* and the effects that re-render runs (the previousSourceLang sync and    *)
(* the debounce effect with its cleanup).                                  *)
(***************************************************************************)
EXTENDS Naturals, Sequences, FiniteSets, TLC

VARIABLES
    sourceLang,          \* useState<Language>('pt')
    targetLang,          \* useState<Language>('en')
    inputText,           \* useState<string>(''), a sequence of characters
    translatedText,      \* useState<string>('')
    isLoading,           \* useState<boolean>(false)
    errorMessage,        \* useState<string | null>(null)
    errorType,           \* useState<'api_key' | 'translation' | null>(null)
    debounceTimeout,     \* useRef<number | null>(null): id of the last timer, 0 for null
    previousSourceLang,  \* useRef<Language>(sourceLang)
    timers,              \* pending window.setTimeout callbacks with what their closure captured
    requests,            \* getTranslation calls suspended at the await, in dispatch order
    mounted,             \* the view has not been torn down
    API_KEY,             \* process.env.API_KEY is set
    superseded,          \* history: how many leading requests were dispatched before one already folded in
    detector,            \* the upstream's detection: a code for each text, or AnyCode where not determined
    sinceUser,           \* history: remote requests dispatched since the last user action
    errorText,           \* history: the text argument of the getTranslation call that set the displayed error
    burst,               \* history: the edits of the current burst and the timer submissions since
    last                 \* history: the last task, if a submission or a response

vars == <<sourceLang, targetLang, inputText, translatedText, isLoading,
          errorMessage, errorType, debounceTimeout, previousSourceLang,
          timers, requests, mounted, API_KEY, detector, sinceUser, superseded,
          errorText, burst, last>>

-----------------------------------------------------------------------------
(* Bounds *)

MaxLang == 2
MaxText == 3
MaxOutstanding == 2
MaxCount == 3

-----------------------------------------------------------------------------
(* Data *)

supportedLanguages ==
    [en |-> "Inglês", pt |-> "Português (BR)", es |-> "Espanhol", fr |-> "Francês",
     de |-> "Alemão", it |-> "Italiano", ja |-> "Japonês", ru |-> "Russo",
     zh |-> "Chinês (Mandarim)", hi |-> "Hindi", ar |-> "Árabe", ko |-> "Coreano"]

Language == {"en", "pt", "es", "fr", "de", "it", "ja", "ru", "zh", "hi", "ar", "ko"}

\* Property names every plain object inherits from Object.prototype.
ObjectPrototypeKeys ==
    {"constructor", "toString", "valueOf", "hasOwnProperty", "isPrototypeOf",
     "propertyIsEnumerable", "toLocaleString", "__proto__"}

\* The <option> elements, in the order of the object literal.
languageOptions == <<"en", "pt", "es", "fr", "de", "it", "ja", "ru", "zh", "hi", "ar", "ko">>

\* The options the modelled user picks from.
UserLangs == {languageOptions[i] : i \in 1..MaxLang}

Whitespace == {" "}

TextOrder == << <<>>, <<" ">>, <<"a">>, <<"b">>, <<" ", "a">>, <<" ", " ">>, <<"a", " ">> >>

\* The texts the modelled user types.
Texts == {TextOrder[i] : i \in 1..MaxText}

\* The translated texts the modelled upstream returns.
UpstreamTexts == {<<>>, <<"a">>}

\* The detected codes the modelled upstream returns: none, supported ones,
\* an unsupported ISO code, and a name that is no language at all.
DetectedCodes == UserLangs \cup {"", "xx", "constructor"}

\* null for errorMessage (string | null) and for errorType.
null == [text |-> "null", arg |-> ""]

NoErrorType == "null"

-----------------------------------------------------------------------------
(* String.prototype.trim *)

RECURSIVE trimStart(_)
trimStart(s) ==
    IF s = <<>> THEN s
    ELSE IF Head(s) \in Whitespace THEN trimStart(Tail(s)) ELSE s

RECURSIVE trimEnd(_)
trimEnd(s) ==
    IF s = <<>> THEN s
    ELSE IF s[Len(s)] \in Whitespace THEN trimEnd(SubSeq(s, 1, Len(s) - 1)) ELSE s

trim(s) == trimEnd(trimStart(s))

-----------------------------------------------------------------------------
(* services/geminiService.ts *)

\* What aiClient.models.generateContent can produce for one call.
\*   rejected   : the call rejects (transport error, HTTP error, blocked)
\*                with an Error carrying message
\*   blank      : response.text trims to the empty string
\*   unparsable : JSON.parse throws on response.text
\*   json       : JSON.parse returns an object with the two fields below
UpstreamResponse(kind, d, dIsString, t, tIsString) ==
    [kind |-> kind, detectedLanguage |-> d, typeofDetectedLanguage |-> dIsString,
     translatedText |-> t, typeofTranslatedText |-> tIsString, message |-> ""]

UpstreamRejection(m) ==
    [UpstreamResponse("rejected", "", "undefined", <<>>, "undefined") EXCEPT !.message = m]

\* The messages of the errors the modelled upstream call rejects with: a
\* transport failure, and the one message the service's catch tests for.
UpstreamMessages == {"Failed to fetch", "API_KEY_MISSING"}

UpstreamResponses ==
    {UpstreamRejection(m) : m \in UpstreamMessages}
    \cup {UpstreamResponse(k, "", "undefined", <<>>, "undefined") : k \in {"blank", "unparsable"}}
    \cup {UpstreamResponse("json", d, "string", t, "string") : d \in DetectedCodes, t \in UpstreamTexts}
    \cup {UpstreamResponse("json", "", "number", <<"a">>, "string"),
          UpstreamResponse("json", "en", "string", <<>>, "object")}

Resolved(d, t) == [ok |-> TRUE, detectedLanguage |-> d, translatedText |-> t, message |-> ""]

Rejected(m) == [ok |-> FALSE, detectedLanguage |-> "", translatedText |-> <<>>, message |-> m]

getAiClient(key) == IF key THEN "ai" ELSE "null"

\* The catch block of translateAndDetect: an error whose message is
\* API_KEY_MISSING is rethrown as it is, any other becomes the generic one.
serviceCatch(message) ==
    IF message = "API_KEY_MISSING" THEN Rejected(message)
    ELSE Rejected("Failed to get translation from Gemini API.")

\* The outcome of translateAndDetect, given the credential and what the
\* upstream call produces (the upstream is not called without a client).
translateAndDetect(key, resp) ==
    IF getAiClient(key) = "null" THEN Rejected("API_KEY_MISSING")
    ELSE IF resp.kind = "rejected" THEN serviceCatch(resp.message)
    ELSE IF resp.kind = "blank" THEN Resolved("", <<>>)
    ELSE IF resp.kind = "unparsable" THEN serviceCatch("Unexpected token")
    ELSE IF resp.typeofDetectedLanguage = "string" /\ resp.typeofTranslatedText = "string"
         THEN Resolved(resp.detectedLanguage, resp.translatedText)
    ELSE serviceCatch("Received invalid data structure from translation API.")

-----------------------------------------------------------------------------
(* App: pure parts of getTranslation *)

\* supportedLanguages[targetLang], the third argument of translateAndDetect:
\* the display name of an own key, the inherited member for any other name
\* the object answers to.
langName(code) ==
    IF code \in DOMAIN supportedLanguages THEN supportedLanguages[code]
    ELSE IF code \in ObjectPrototypeKeys THEN "function"
    ELSE "undefined"

\* lang in supportedLanguages: own keys and inherited ones.
isSupported(lang) == lang \in DOMAIN supportedLanguages \/ lang \in ObjectPrototypeKeys

\* new Intl.DisplayNames(['pt-BR'], {type: 'language'}).of(code), capitalised;
\* the raw code when the lookup throws.
detectedLangName(code) == IF code = "xx" THEN "Xx" ELSE code

unsupportedMessage(code) ==
    [text |-> "O idioma detectado (${name}) não é suportado.", arg |-> detectedLangName(code)]

\* The selections after a successful response with detected code d, in a
\* getTranslation whose closure holds closureSource and closureTarget.
reconcile(d, closureSource, closureTarget, prev, src, tgt) ==
    IF d /= "" /\ isSupported(d) /\ d /= closureSource
    THEN [sourceLang |-> d,
          targetLang |-> IF d = closureTarget THEN prev ELSE tgt]
    ELSE [sourceLang |-> src, targetLang |-> tgt]

\* The catch block without its API_KEY_MISSING branch.
catchErrorGeneric(message) ==
    [errorMessage |-> [text |-> "Falha ao traduzir. Por favor, tente novamente.", arg |-> ""],
     errorType |-> "translation"]

\* The catch block.
catchError(message) ==
    IF message = "API_KEY_MISSING"
    THEN [errorMessage |-> [text |-> "A chave da API está faltando. A funcionalidade de tradução está desativada.", arg |-> ""],
          errorType |-> "api_key"]
    ELSE [errorMessage |-> [text |-> "Falha ao traduzir. Por favor, tente novamente.", arg |-> ""],
          errorType |-> "translation"]

\* setIsLoading(false) as the last statement of the try block.
isLoadingAfterTry(res, loading) == IF res.ok THEN FALSE ELSE loading

\* finally { setIsLoading(false) }: whatever the outcome res, and whatever
\* isLoading was.
isLoadingFinally(res, loading) == FALSE

\* if (!text) in place of if (!text.trim())
isEmptyUntrimmed(text) == text = <<>>

\* if (!text.trim())
isBlank(text) == trim(text) = <<>>

-----------------------------------------------------------------------------
(* App: timers and effects *)

clearTimeout(ts, id) == {t \in ts : t.id /= id}

\* window.setTimeout returns an id no pending timer has.
setTimeoutId(ts) ==
    CHOOSE n \in 1..(Cardinality(ts) + 1) :
        /\ \A t \in ts : t.id /= n
        /\ \A m \in 1..(n - 1) : \E t \in ts : t.id = m

\* useCallback(..., [sourceLang]): targetLang missing from the dependency list.
getTranslationChangedSourceOnly(src, tgt, newSrc, newTgt) == newSrc /= src

\* useCallback(..., [sourceLang, targetLang]): a new getTranslation.
getTranslationChanged(src, tgt, newSrc, newTgt) == newSrc /= src \/ newTgt /= tgt

\* The debounce effect with getTranslation missing from its dependency list.
debounceDepsTextOnly(text, src, tgt, newText, newSrc, newTgt) == newText /= text

\* The debounce effect with inputText missing from its dependency list.
debounceDepsWithoutText(text, src, tgt, newText, newSrc, newTgt) ==
    getTranslationChanged(src, tgt, newSrc, newTgt)

\* useEffect(..., [inputText, getTranslation]): the debounce effect re-runs.
debounceDepsChanged(text, src, tgt, newText, newSrc, newTgt) ==
    newText /= text \/ getTranslationChanged(src, tgt, newSrc, newTgt)

\* The debounce effect without its cleanup and without its leading
\* clearTimeout: a timer is scheduled and nothing is cancelled.
debounceEffectNoCancel(ts, ref, text, src, tgt) ==
    LET id == setTimeoutId(ts)
    IN  [timers |-> ts \cup {[id |-> id, text |-> text, sourceLang |-> src, targetLang |-> tgt]},
         debounceTimeout |-> id]

\* The cleanup of the previous debounce effect, then the effect itself: the
\* callback closes over the render's inputText and getTranslation.
debounceEffect(ts, ref, text, src, tgt) ==
    LET afterCleanup == clearTimeout(ts, ref)
        cleared == IF ref /= 0 THEN clearTimeout(afterCleanup, ref) ELSE afterCleanup
        id == setTimeoutId(cleared)
    IN  [timers |-> cleared \cup {[id |-> id, text |-> text, sourceLang |-> src, targetLang |-> tgt]},
         debounceTimeout |-> id]

NoResult == [ok |-> FALSE, detectedLanguage |-> "", translatedText |-> <<>>, message |-> ""]

\* The four fields a swap exchanges.
Fields(src, tgt, text, translated) ==
    [sourceLang |-> src, targetLang |-> tgt, inputText |-> text, translatedText |-> translated]

NoLast(op) ==
    [op |-> op, via |-> "", text |-> <<>>, result |-> NoResult, stale |-> FALSE,
     updated |-> FALSE, before |-> Fields("", "", <<>>, <<>>), swaps |-> 0]

\* The re-render after the state setters of one task, with its effects.
Commit(newText, newSrc, newTgt) ==
    IF mounted
    THEN /\ previousSourceLang' = newSrc
         /\ IF debounceDepsChanged(inputText, sourceLang, targetLang, newText, newSrc, newTgt)
            THEN LET e == debounceEffect(timers, debounceTimeout, newText, newSrc, newTgt)
                 IN  /\ timers' = e.timers
                     /\ debounceTimeout' = e.debounceTimeout
            ELSE UNCHANGED <<timers, debounceTimeout>>
         /\ burst' = IF newText /= inputText
                     THEN [edits |-> IF burst.clean /\ burst.fires = 0 /\ burst.edits < 2
                                     THEN burst.edits + 1
                                     ELSE IF burst.clean /\ burst.fires = 0 THEN 2 ELSE 1,
                           fires |-> 0, clean |-> TRUE, text |-> <<>>]
                     ELSE IF newSrc /= sourceLang \/ newTgt /= targetLang
                          THEN [edits |-> 0, fires |-> 0, clean |-> FALSE, text |-> <<>>]
                     ELSE burst
    ELSE UNCHANGED <<previousSourceLang, timers, debounceTimeout, burst>>

-----------------------------------------------------------------------------
(* App: getTranslation up to its await *)

getTranslation(text, closureSource, closureTarget, via) ==
    LET found == [NoLast("submit") EXCEPT !.via = via, !.text = text]
        \* a press of the retry button is a user action
        since == IF via = "retry" THEN 0 ELSE sinceUser
    IN
    IF isBlank(text)
    THEN /\ translatedText' = <<>>
         /\ errorMessage' = null
         /\ errorType' = NoErrorType
         /\ UNCHANGED <<isLoading, requests>>
         /\ sinceUser' = since
         /\ errorText' = <<>>
         /\ last' = found
    ELSE IF getAiClient(API_KEY) = "null"
    THEN \* translateAndDetect throws before any await: the catch and the
         \* finally run in the same task
         LET res == translateAndDetect(API_KEY, UpstreamRejection("Failed to fetch"))
             e == catchError(res.message)
         IN  /\ errorMessage' = e.errorMessage
             /\ errorType' = e.errorType
             /\ isLoading' = isLoadingFinally(res, TRUE)
             /\ UNCHANGED <<translatedText, requests>>
             /\ sinceUser' = since
             /\ errorText' = text
             /\ last' = [found EXCEPT !.result = res]
    ELSE /\ Len(requests) < MaxOutstanding
         /\ isLoading' = TRUE
         /\ errorMessage' = null
         /\ errorType' = NoErrorType
         /\ requests' = Append(requests, [text |-> text, sourceLang |-> closureSource,
                                          targetLang |-> closureTarget,
                                          langName |-> langName(closureTarget)])
         /\ UNCHANGED translatedText
         /\ sinceUser' = IF since < MaxCount THEN since + 1 ELSE MaxCount
         /\ errorText' = <<>>
         /\ last' = found

-----------------------------------------------------------------------------
(* Actions *)

\* The texts a remote request is dispatched for.
NonBlankTexts == {text \in Texts : ~isBlank(text)}

AnyCode == "*"

\* The upstream may answer text with the detected code d.
Detects(text, d) == detector[text] \in {AnyCode, d}

\* The view after its first render and its effects.
InitView ==
    /\ sourceLang = "pt"
    /\ targetLang = "en"
    /\ inputText = <<>>
    /\ translatedText = <<>>
    /\ isLoading = FALSE
    /\ errorMessage = null
    /\ errorType = NoErrorType
    /\ previousSourceLang = "pt"
    /\ LET e == debounceEffect({}, 0, <<>>, "pt", "en")
       IN  /\ timers = e.timers
           /\ debounceTimeout = e.debounceTimeout
    /\ requests = <<>>
    /\ mounted = TRUE
    /\ API_KEY \in BOOLEAN
    /\ superseded = 0
    /\ errorText = <<>>
    /\ burst = [edits |-> 0, fires |-> 0, clean |-> TRUE, text |-> <<>>]
    /\ sinceUser = 0
    /\ last = NoLast("mount")

\* Nothing determines what the upstream detects.
Init == InitView /\ detector = [text \in NonBlankTexts |-> AnyCode]

\* The upstream detects one code for each text.
QuietInit == InitView /\ detector \in [NonBlankTexts -> DetectedCodes]

\* onChange of the source textarea.
EditText(text) ==
    /\ mounted
    /\ text /= inputText
    /\ inputText' = text
    /\ Commit(text, sourceLang, targetLang)
    /\ sinceUser' = 0
    /\ last' = NoLast("user")
    /\ UNCHANGED <<sourceLang, targetLang, translatedText, isLoading, errorMessage,
                   errorType, requests, mounted, API_KEY, detector, superseded, errorText>>

\* onChange of the source <select>.
SelectSource(lang) ==
    /\ mounted
    /\ lang /= sourceLang
    /\ sourceLang' = lang
    /\ Commit(inputText, lang, targetLang)
    /\ sinceUser' = 0
    /\ last' = NoLast("user")
    /\ UNCHANGED <<targetLang, inputText, translatedText, isLoading, errorMessage,
                   errorType, requests, mounted, API_KEY, detector, superseded, errorText>>

\* onChange of the target <select>.
SelectTarget(lang) ==
    /\ mounted
    /\ lang /= targetLang
    /\ targetLang' = lang
    /\ Commit(inputText, sourceLang, lang)
    /\ sinceUser' = 0
    /\ last' = NoLast("user")
    /\ UNCHANGED <<sourceLang, inputText, translatedText, isLoading, errorMessage,
                   errorType, requests, mounted, API_KEY, detector, superseded, errorText>>

\* History of a swap: the four fields it found, and whether the task before it
\* was a swap too.
SwapLast ==
    [NoLast("swap") EXCEPT !.before = Fields(sourceLang, targetLang, inputText, translatedText),
                           !.swaps = IF last.op = "swap" THEN 2 ELSE 1]

\* The language codes are exchanged; translatedText is copied into inputText
\* and keeps its own value.
handleSwapLanguagesOverwriting ==
    /\ mounted
    /\ sourceLang /= targetLang \/ inputText /= translatedText
    /\ sourceLang' = targetLang
    /\ targetLang' = sourceLang
    /\ inputText' = translatedText
    /\ Commit(translatedText, targetLang, sourceLang)
    /\ sinceUser' = 0
    /\ last' = SwapLast
    /\ UNCHANGED <<translatedText, isLoading, errorMessage, errorType, requests,
                   mounted, API_KEY, detector, superseded, errorText>>

\* The language codes are exchanged and the text buffers are left alone.
handleSwapLanguagesOnly ==
    /\ mounted
    /\ sourceLang /= targetLang \/ inputText /= translatedText
    /\ sourceLang' = targetLang
    /\ targetLang' = sourceLang
    /\ Commit(inputText, targetLang, sourceLang)
    /\ sinceUser' = 0
    /\ last' = SwapLast
    /\ UNCHANGED <<inputText, translatedText, isLoading, errorMessage, errorType, requests,
                   mounted, API_KEY, detector, superseded, errorText>>

handleSwapLanguages ==
    /\ mounted
    /\ sourceLang /= targetLang \/ inputText /= translatedText
    /\ sourceLang' = targetLang
    /\ targetLang' = sourceLang
    /\ inputText' = translatedText
    /\ translatedText' = inputText
    /\ Commit(translatedText, targetLang, sourceLang)
    /\ sinceUser' = 0
    /\ last' = SwapLast
    /\ UNCHANGED <<isLoading, errorMessage, errorType, requests, mounted, API_KEY, detector, superseded,
                   errorText>>

\* The two text buffers are emptied and the error is left on screen.
handleClearInputTextOnly ==
    /\ mounted
    /\ inputText /= <<>>
    /\ inputText' = <<>>
    /\ translatedText' = <<>>
    /\ Commit(<<>>, sourceLang, targetLang)
    /\ sinceUser' = 0
    /\ last' = NoLast("clear")
    /\ UNCHANGED <<sourceLang, targetLang, isLoading, errorMessage, errorType, requests,
                   mounted, API_KEY, detector, superseded, errorText>>

\* The clear button is rendered only while the input is non-empty.
handleClearInput ==
    /\ mounted
    /\ inputText /= <<>>
    /\ inputText' = <<>>
    /\ translatedText' = <<>>
    /\ errorMessage' = null
    /\ errorType' = NoErrorType
    /\ Commit(<<>>, sourceLang, targetLang)
    /\ errorText' = <<>>
    /\ sinceUser' = 0
    /\ last' = NoLast("clear")
    /\ UNCHANGED <<sourceLang, targetLang, isLoading, requests, mounted, API_KEY, detector, superseded>>

\* The callback of a pending debounce timer.
TimerFire(t) ==
    /\ t \in timers
    /\ timers' = timers \ {t}
    /\ getTranslation(t.text, t.sourceLang, t.targetLang, "timer")
    /\ burst' = IF burst.clean
                THEN [edits |-> burst.edits,
                      fires |-> IF burst.fires < 2 THEN burst.fires + 1 ELSE 2,
                      clean |-> TRUE, text |-> t.text]
                ELSE burst
    /\ UNCHANGED <<sourceLang, targetLang, inputText, debounceTimeout, previousSourceLang,
                   mounted, API_KEY, detector, superseded>>

\* The "Tentar Novamente" button of renderError.
Retry ==
    /\ mounted
    /\ errorMessage /= null
    /\ errorType = "translation"
    /\ getTranslation(inputText, sourceLang, targetLang, "retry")
    /\ UNCHANGED <<sourceLang, targetLang, inputText, debounceTimeout, previousSourceLang,
                   timers, mounted, API_KEY, detector, superseded, burst>>

RemoveAt(seq, i) == SubSeq(seq, 1, i - 1) \o SubSeq(seq, i + 1, Len(seq))

\* What the await of a dispatched request can settle with.
Outcomes == {translateAndDetect(TRUE, resp) : resp \in UpstreamResponses}

\* The await of request i settles with res: the rest of getTranslation runs.
Settle(i, res) ==
    /\ i \in 1..Len(requests)
    /\ res.ok => Detects(requests[i].text, res.detectedLanguage)
    /\ LET r == requests[i]
           d == res.detectedLanguage
           sel == IF res.ok
                  THEN reconcile(d, r.sourceLang, r.targetLang, previousSourceLang,
                                 sourceLang, targetLang)
                  ELSE [sourceLang |-> sourceLang, targetLang |-> targetLang]
           unsupported == res.ok /\ d /= "" /\ ~isSupported(d)
           e == catchError(res.message)
       IN  /\ requests' = RemoveAt(requests, i)
           /\ superseded' = (IF i <= superseded THEN superseded ELSE i) - 1
           /\ IF mounted
              THEN /\ translatedText' = IF ~res.ok THEN translatedText
                                        ELSE IF unsupported THEN <<>>
                                        ELSE res.translatedText
                   /\ errorMessage' = IF ~res.ok THEN e.errorMessage
                                      ELSE IF unsupported THEN unsupportedMessage(d)
                                      ELSE errorMessage
                   /\ errorType' = IF ~res.ok THEN e.errorType
                                   ELSE IF unsupported THEN "translation"
                                   ELSE errorType
                   /\ isLoading' = isLoadingFinally(res, isLoading)
                   /\ errorText' = IF ~res.ok \/ unsupported THEN r.text ELSE errorText
                   /\ sourceLang' = sel.sourceLang
                   /\ targetLang' = sel.targetLang
                   /\ Commit(inputText, sel.sourceLang, sel.targetLang)
                   /\ last' = [NoLast("settle") EXCEPT !.result = res, !.stale = (i <= superseded),
                                                             !.updated = (sel.sourceLang /= sourceLang)]
              ELSE \* state setters of an unmounted component do nothing
                   /\ last' = NoLast("dropped")
                   /\ UNCHANGED <<translatedText, errorMessage, errorType, isLoading,
                                  sourceLang, targetLang, previousSourceLang, timers,
                                  debounceTimeout, errorText, burst>>
    /\ UNCHANGED <<inputText, mounted, API_KEY, detector, sinceUser>>

\* View teardown with a debounce effect that returns no cleanup.
UnmountNoCleanup ==
    /\ mounted
    /\ mounted' = FALSE
    /\ sinceUser' = 0
    /\ last' = NoLast("unmount")
    /\ UNCHANGED <<sourceLang, targetLang, inputText, translatedText, isLoading,
                   errorMessage, errorType, debounceTimeout, previousSourceLang,
                   timers, requests, API_KEY, detector, superseded, errorText, burst>>

\* View teardown: the cleanup of the debounce effect.
Unmount ==
    /\ mounted
    /\ mounted' = FALSE
    /\ timers' = clearTimeout(timers, debounceTimeout)
    /\ sinceUser' = 0
    /\ last' = NoLast("unmount")
    /\ UNCHANGED <<sourceLang, targetLang, inputText, translatedText, isLoading,
                   errorMessage, errorType, debounceTimeout, previousSourceLang,
                   requests, API_KEY, detector, superseded, errorText, burst>>

Next ==
    \/ \E text \in Texts : EditText(text)
    \/ \E lang \in UserLangs : SelectSource(lang)
    \/ \E lang \in UserLangs : SelectTarget(lang)
    \/ handleSwapLanguages
    \/ handleClearInput
    \/ \E t \in timers : TimerFire(t)
    \/ Retry
    \/ \E i \in 1..MaxOutstanding, res \in Outcomes : Settle(i, res)
    \/ Unmount

Spec == Init /\ [][Next]_vars

\* The upstream detects one code for each text, a pending timer fires, and
\* every dispatched request settles.
QuietSpec ==
    /\ QuietInit /\ [][Next]_vars
    /\ WF_vars(\E t \in timers : TimerFire(t))
    /\ WF_vars(\E i \in 1..MaxOutstanding, res \in Outcomes : Settle(i, res))

\* A pending timer fires once its 800 ms have passed, unless it is cancelled
\* first.  Nothing obliges the user to act or the upstream to answer.
FairSpec ==
    /\ Init /\ [][Next]_vars
    /\ WF_vars(\E t \in timers : TimerFire(t))

-----------------------------------------------------------------------------
(* Properties *)

\* A text with no character other than whitespace (the empty text included).
WhitespaceOnly(text) == \A i \in 1..Len(text) : text[i] \in Whitespace

\* This step is the rest of a getTranslation folding a resolved result in.
FoldsResolved == last'.op = "settle" /\ last'.result.ok

\* This step is a getTranslation call up to its await.
Submits == last'.op = "submit"

\* C1. Debounce coalescing: as long as only inputText has changed since the
\* last edit (no selection changed), the timer has submitted at most once since
\* that edit; if it has, it submitted the text of the final edit and no timer
\* is pending; if it has not, exactly one timer is pending and it will submit
\* the text of the final edit.
DebounceCoalescing ==
    (mounted /\ burst.clean) =>
        /\ burst.fires <= 1
        /\ burst.fires = 1 => (burst.text = inputText /\ timers = {})
        /\ burst.fires = 0 => \E t \in timers : timers = {t} /\ t.text = inputText

\* Two or more edits in a row were followed by one submission, of the last text.
DebounceCoalescingWitness ==
    /\ mounted /\ burst.clean
    /\ burst.edits = 2 /\ burst.fires = 1
    /\ burst.text = <<"a">> /\ inputText = <<"a">>

\* C2. At most one translateAndDetect request is outstanding in every
\* reachable state.
SingleOutstandingRequest == Len(requests) <= 1

\* C3. No stale overwrite: no response of a request is folded in after the
\* response of a request dispatched later than it has been folded in.
NoStaleOverwrite == last.op = "settle" => ~last.stale

\* C4. After a successful response whose detected code is a supported
\* language has been folded in, sourceLang differs from targetLang, also when
\* the user changed a selector or swapped while the request was outstanding.
\* Stated for the responses that find the two selections distinct: the
\* reconciler never makes distinct selections equal.
SourceDiffersFromTargetAfterDetection ==
    [][\A L \in Language :
          (FoldsResolved /\ last'.result.detectedLanguage = L /\ sourceLang /= targetLang)
          => sourceLang' /= targetLang']_vars

\* C5. Swap-avoidance: folding in a successful response whose detected code L
\* is supported, equals the targetLang and differs from the sourceLang of that
\* moment makes sourceLang L and targetLang the sourceLang of that moment.
SwapAvoidance ==
    [][\A L \in Language :
          (FoldsResolved /\ last'.result.detectedLanguage = L
             /\ L = targetLang /\ L /= sourceLang)
          => (sourceLang' = L /\ targetLang' = sourceLang /\ targetLang' /= sourceLang')]_vars

\* C6. Folding in a successful response whose detected code L is supported
\* and differs from the sourceLang and the targetLang of that moment makes
\* sourceLang L and leaves targetLang; when L is the sourceLang of that moment
\* neither selection changes.
DetectionUpdatesSourceOnly ==
    [][\A L \in Language :
          (FoldsResolved /\ last'.result.detectedLanguage = L)
          => /\ (L /= sourceLang /\ L /= targetLang)
                   => (sourceLang' = L /\ targetLang' = targetLang)
             /\ (L = sourceLang)
                   => (sourceLang' = sourceLang /\ targetLang' = targetLang)]_vars

\* C7. Folding in a successful response whose detected code is non-empty and
\* outside the supported set empties translatedText, sets errorState to
\* translation-failure with the message naming the detected language, and
\* leaves sourceLang and targetLang.
UnsupportedDetection ==
    [][\A d \in DetectedCodes :
          (FoldsResolved /\ last'.result.detectedLanguage = d /\ d /= "" /\ d \notin Language)
          => /\ translatedText' = <<>>
             /\ errorType' = "translation"
             /\ errorMessage' = unsupportedMessage(d)
             /\ sourceLang' = sourceLang
             /\ targetLang' = targetLang]_vars

\* C8. Folding in a successful response with an empty detected code leaves
\* sourceLang and targetLang, leaves errorState absent, and writes only
\* translatedText (the result's text) and isLoading (false).
EmptyDetectionFrame ==
    [][(FoldsResolved /\ last'.result.detectedLanguage = "")
          => /\ sourceLang' = sourceLang
             /\ targetLang' = targetLang
             /\ errorMessage' = null
             /\ errorType' = NoErrorType
             /\ translatedText' = last'.result.translatedText
             /\ isLoading' = FALSE
             /\ inputText' = inputText]_vars

\* C9. A submission (by the timer or by retry) of an empty or whitespace-only
\* text dispatches no request, and leaves translatedText empty and errorState
\* absent; the timer armed at mount holds the empty text.
BlankSubmissionNeverDispatches ==
    [][/\ (Submits /\ WhitespaceOnly(last'.text))
             => /\ requests' = requests
                /\ translatedText' = <<>>
                /\ errorMessage' = null
                /\ errorType' = NoErrorType
       /\ (Submits /\ last.op = "mount")
             => (last'.text = <<>> /\ requests' = <<>>)]_vars

\* A whitespace-only, non-empty text was submitted with the credential set.
BlankSubmissionWitness ==
    /\ API_KEY
    /\ last.op = "submit"
    /\ last.text = <<" ">>
    /\ requests = <<>>
    /\ translatedText = <<>>
    /\ errorMessage = null

\* C10 as stated. Without a credential, a submission of a non-empty text ends
\* with errorState missing-credential and isLoading false, and leaves
\* translatedText, sourceLang and targetLang.
MissingCredentialNonEmpty ==
    [][(~API_KEY /\ Submits /\ last'.text /= <<>>)
          => /\ errorType' = "api_key"
             /\ errorMessage' /= null
             /\ isLoading' = FALSE
             /\ translatedText' = translatedText
             /\ sourceLang' = sourceLang
             /\ targetLang' = targetLang]_vars

\* C10 as amended. Without a credential, a submission of a text that is
\* neither empty nor whitespace-only ends with errorState missing-credential
\* and isLoading false, dispatches nothing, and leaves translatedText,
\* sourceLang and targetLang.
MissingCredential ==
    [][(~API_KEY /\ Submits /\ ~WhitespaceOnly(last'.text))
          => /\ errorType' = "api_key"
             /\ errorMessage' /= null
             /\ isLoading' = FALSE
             /\ requests' = requests
             /\ translatedText' = translatedText
             /\ sourceLang' = sourceLang
             /\ targetLang' = targetLang]_vars

\* A non-blank text was submitted without a credential while a translated
\* text was showing.
MissingCredentialWitness ==
    /\ ~API_KEY
    /\ last.op = "submit"
    /\ last.text = <<"a">>
    /\ errorType = "api_key"
    /\ ~isLoading
    /\ translatedText = <<"a">>

\* C11. isLoading is true only while a request is outstanding: while the
\* view is mounted, isLoading is false whenever no request is outstanding, and
\* every request that settles, with a result or with a failure, leaves
\* isLoading false.
LoadingOnlyWhileOutstanding ==
    [][/\ (mounted' /\ requests' = <<>>) => ~isLoading'
       /\ last'.op = "settle" => ~isLoading']_vars

\* The only outstanding request failed and isLoading went from true to false.
LoadingOnlyWhileOutstandingWitness ==
    /\ mounted
    /\ last.op = "settle" /\ ~last.result.ok
    /\ requests = <<>>
    /\ ~isLoading

\* C12. Manual swap is one step: it takes (sourceLang, targetLang, inputText,
\* translatedText) = (s, t, in, out) to (t, s, out, in), all four fields in the
\* same step, and leaves the error state and isLoading unchanged.  No other
\* step sits between the press and the exchanged state, so no state with only
\* some of the four fields changed is reachable from the press.
SwapIsAtomic ==
    [][last'.op = "swap" =>
         /\ sourceLang' = targetLang
         /\ targetLang' = sourceLang
         /\ inputText' = translatedText
         /\ translatedText' = inputText
         /\ errorMessage' = errorMessage
         /\ errorType' = errorType
         /\ isLoading' = isLoading]_vars

\* A swap exchanged two different languages and two different texts while a
\* request was outstanding.
SwapIsAtomicWitness ==
    /\ last.op = "swap"
    /\ sourceLang /= targetLang
    /\ inputText /= translatedText
    /\ translatedText /= <<>>
    /\ isLoading

\* C13. Clearing the input empties inputText and translatedText and removes the
\* error in one step, and leaves sourceLang, targetLang and isLoading unchanged.
ClearResetsTextsAndError ==
    [][last'.op = "clear" =>
         /\ inputText' = <<>>
         /\ translatedText' = <<>>
         /\ errorMessage' = null
         /\ errorType' = NoErrorType
         /\ sourceLang' = sourceLang
         /\ targetLang' = targetLang
         /\ isLoading' = isLoading]_vars

\* The input was cleared while a request was outstanding: both texts are
\* empty, no error is shown and isLoading is still true.
ClearResetsTextsAndErrorWitness ==
    /\ last.op = "clear"
    /\ inputText = <<>> /\ translatedText = <<>>
    /\ errorMessage = null
    /\ isLoading
    /\ requests /= <<>>

\* C14. The debounce timer is single-instance: at most one timer is pending in
\* every state; a step that schedules a timer leaves that timer as the only
\* pending one, referenced by debounceTimeout, so the previous one is cancelled;
\* and the only callback that ever runs is the one of the timer debounceTimeout
\* references, never one of a cancelled timer.
SingleInstanceTimer ==
    [][/\ Cardinality(timers) <= 1 /\ Cardinality(timers') <= 1
       /\ \A t \in timers' \ timers : timers' = {t} /\ debounceTimeout' = t.id
       /\ (last'.op = "submit" /\ last'.via = "timer") =>
              \E t \in timers : /\ t.id = debounceTimeout
                                /\ t.text = last'.text
                                /\ timers' = {}]_vars

\* Two edits re-armed the timer while it was pending, and then one callback
\* ran.
SingleInstanceTimerWitness ==
    /\ last.op = "submit" /\ last.via = "timer"
    /\ burst.clean /\ burst.edits = 2 /\ burst.fires = 1
    /\ timers = {}

\* C15. View teardown cancels the pending debounce timer: once the view is
\* torn down no timer is pending, and from then on no step is an invocation of
\* getTranslation and no step adds a remote request.
TeardownCancelsTimer ==
    [][/\ ~mounted' => timers' = {}
       /\ ~mounted => /\ last'.op /= "submit"
                      /\ Len(requests') <= Len(requests)]_vars

\* The view was torn down while the timer of the current burst of edits was
\* still pending.
TeardownCancelsTimerWitness ==
    /\ ~mounted
    /\ last.op = "unmount"
    /\ burst.clean /\ burst.edits > 0 /\ burst.fires = 0
    /\ timers = {}

\* C16. While the displayed error is a translation failure, a press of the
\* retry button calls getTranslation with the text argument of the call that
\* set the error, whatever inputText has become since.
RetryResubmitsLastText ==
    [][(last'.op = "submit" /\ last'.via = "retry") => last'.text = errorText]_vars

\* C17. Fault classification is total and two-valued: a translateAndDetect
\* call that fails, fails either with the credential-missing condition or with
\* the generic failure; it fails with credential-missing only when no client
\* can be obtained, and then before any network call (no request was
\* dispatched); and in the mounted view a failed call ends with errorState
\* missing-credential for the first and translation-failure for the second,
\* never absent.
FaultClassification ==
    [][(last'.op \in {"submit", "settle"} /\ ~last'.result.ok /\ last'.result.message /= "") =>
         /\ last'.result.message \in {"API_KEY_MISSING", "Failed to get translation from Gemini API."}
         /\ last'.result.message = "API_KEY_MISSING" =>
                /\ getAiClient(API_KEY) = "null"
                /\ last'.op = "submit"
                /\ requests' = requests
         /\ errorMessage' /= null
         /\ errorType' = IF last'.result.message = "API_KEY_MISSING"
                         THEN "api_key" ELSE "translation"]_vars

\* C18. After a submission with empty or whitespace-only text isLoading is
\* false, also when that submission happens while an earlier request is still
\* outstanding.
BlankSubmissionLeavesNotLoading ==
    [][(last'.op = "submit" /\ WhitespaceOnly(last'.text)) => ~isLoading']_vars

\* C19. A request dispatched by the timer callback carries the inputText and
\* the targetLang, code and display name, that the view holds when the timer
\* fires, and in the same step, before the await, isLoading becomes true and
\* the error state is cleared.
TimerDispatchCarriesLiveState ==
    [][(last'.op = "submit" /\ last'.via = "timer" /\ Len(requests') > Len(requests)) =>
         LET r == requests'[Len(requests')]
         IN  /\ r.text = inputText
             /\ r.targetLang = targetLang
             /\ r.langName = langName(targetLang)
             /\ isLoading'
             /\ errorMessage' = null
             /\ errorType' = NoErrorType]_vars

\* The timer dispatched a request after the target language and the text had
\* both changed since the first render, while an earlier request was
\* outstanding.
TimerDispatchCarriesLiveStateWitness ==
    /\ last.op = "submit" /\ last.via = "timer"
    /\ Len(requests) = 2
    /\ requests[2].targetLang /= "en"
    /\ requests[2].text /= <<>>
    /\ requests[2].targetLang /= requests[1].targetLang
    /\ isLoading

\* The reconciler has just changed sourceLang after a successful response.
AutoUpdated == mounted /\ last.op = "settle" /\ last.result.ok /\ last.updated

\* The timer callback has just dispatched a remote request for the inputText
\* of the view.
TimerRequestForInput ==
    /\ last.op = "submit" /\ last.via = "timer" /\ last.text = inputText
    /\ requests /= <<>>
    /\ requests[Len(requests)].text = inputText

\* The last step was the user's: an edit, a selection, a swap, a clear, a
\* retry, or the teardown of the view.
Intervened ==
    \/ last.op \in {"user", "swap", "clear", "unmount"}
    \/ last.op = "submit" /\ last.via = "retry"

\* Every step of the mounted view that changes sourceLang or targetLang leaves
\* one pending timer, for the new selections and the view's inputText.
ChangeRearms ==
    (mounted' /\ (sourceLang' /= sourceLang \/ targetLang' /= targetLang)) =>
        timers' = {[id |-> debounceTimeout', text |-> inputText',
                    sourceLang |-> sourceLang', targetLang |-> targetLang']}

\* C20 as stated. Any change of sourceLang or targetLang re-arms the debounce
\* timer, and a successful response that auto-updates sourceLang is followed,
\* unless the user intervenes, by a second remote request for the same
\* inputText.
AutoUpdateResubmits ==
    /\ [][ChangeRearms]_vars
    /\ AutoUpdated ~> (TimerRequestForInput \/ Intervened)

\* C20, amended. Any change of sourceLang or targetLang re-arms the debounce
\* timer, and a successful response that auto-updates sourceLang while
\* inputText is neither empty nor whitespace-only is followed, unless the user
\* intervenes, by a second remote request for the same inputText.
AutoUpdateResubmitsNonBlank ==
    /\ [][ChangeRearms]_vars
    /\ (AutoUpdated /\ ~WhitespaceOnly(inputText)) ~> (TimerRequestForInput \/ Intervened)

\* The reconciler has changed sourceLang to the detected language of a
\* non-blank input, and the timer is pending again for that input and the new
\* source language.
AutoUpdateResubmitsWitness ==
    /\ AutoUpdated
    /\ ~WhitespaceOnly(inputText)
    /\ sourceLang = last.result.detectedLanguage
    /\ \E t \in timers : t.text = inputText /\ t.sourceLang = sourceLang

\* C22. In every reachable state sourceLang and targetLang are members of the
\* fixed supported set of language codes, whatever string the upstream returns
\* as detected code.
SelectionsSupported == sourceLang \in Language /\ targetLang \in Language

\* C23. Manual swap is an involution on (sourceLang, targetLang, inputText,
\* translatedText): a swap that directly follows a swap, with no timer firing
\* and no response arriving in between, restores the four fields to the values
\* the first swap found.
SwapInvolution ==
    [][(last.op = "swap" /\ last'.op = "swap") =>
         Fields(sourceLang', targetLang', inputText', translatedText') = last.before]_vars

\* Two swaps in a row, of two different languages and two different texts.
SwapInvolutionWitness ==
    /\ last.op = "swap" /\ last.swaps = 2
    /\ sourceLang /= targetLang
    /\ inputText /= translatedText
    /\ Fields(targetLang, sourceLang, translatedText, inputText) = last.before

\* C21. Quiescence: when the detected code is a function of the submitted
\* text, at most two remote requests are dispatched after the last user action
\* before the view rests.
QuiescentWithinTwoRequests == sinceUser <= 2

====
